---- MODULE Spec2Model ----
(***************************************************************************)
(* Roblox shirt generator (src/app.py): a Streamlit script whose main()    *)
(* is rerun on every interaction.  The model keeps the template cache file *)
(* (a byte sequence on disk), the steps of download_template for each      *)
(* script thread, and the steps of one session's main(): prompt check,     *)
(* OpenAI client, DALL-E call, logo or pattern layout, template overlay,   *)
(* display.  Images are kept symbolically (a texture, or an operation on   *)
(* images) and PixelAt computes any pixel of them from the operations the  *)
(* code applied, with Pillow's 8-bit integer arithmetic.                   *)
(***************************************************************************)
EXTENDS Integers, Sequences, FiniteSets, TLC

VARIABLES
    file,           \* the cache file TEMPLATE_FILENAME: [exists, data]
    fetches,        \* number of requests.get(TEMPLATE_URL) issued so far
    dl,             \* per script thread: where it is in download_template
    pc,             \* the session's position in main()
    runs,           \* script runs started by the session
    rendered,       \* the widgets of the last run were drawn (lines 141-154)
    prompt,         \* st.text_input value of this run
    mode,           \* st.selectbox value of this run
    generate_btn,   \* st.button value of this run
    client,         \* "none" | "ok": the OpenAI client of this run
    genCalls,       \* calls of client.images.generate in this run
    ai_image,       \* what generate_image returned (NoImage for None)
    tile,           \* create_pattern_mode_image: the resized tile
    tx,             \* create_pattern_mode_image: loop variable x
    ty,             \* create_pattern_mode_image: loop variable y
    base_image,     \* the layout canvas
    overlay,        \* apply_template_overlay: the overlay being prepared
    overlayPath,    \* "none" | "opened" | "resized" | "applied" | "failed"
    final_image,    \* what apply_template_overlay returned
    displayed,      \* the image handed to st.image
    download,       \* the image offered by st.download_button as PNG
    notices,        \* st.warning / st.error messages of this run
    outcome         \* how the last run ended

vars == <<file, fetches, dl, pc, runs, rendered, prompt, mode, generate_btn,
          client, genCalls, ai_image, tile, tx, ty, base_image, overlay,
          overlayPath, final_image, displayed, download, notices, outcome>>

sessionVars == <<pc, runs, rendered, prompt, mode, generate_btn, client,
                 genCalls, ai_image, tile, tx, ty, base_image, overlay,
                 overlayPath, final_image, displayed, download, notices,
                 outcome>>

imageVars == <<ai_image, tile, tx, ty, base_image, overlay, overlayPath,
               final_image, displayed, download>>

(***************************************************************************)
(* Configuration (src/app.py lines 11-20)                                  *)
(***************************************************************************)
ROBLOX_WIDTH == 585
ROBLOX_HEIGHT == 559
LOGO_X == 231
LOGO_Y == 74
LOGO_SIZE == 128
PATTERN_SIZE == 150

\* Script runs a session makes in the model.
MaxRuns == 2

(***************************************************************************)
(* Images.  A texture is a decoded picture: colour cs[k] fills the cells   *)
(* of a checkerboard of cell x cell blocks (one colour: a uniform image).  *)
(* Every other image is an operation the code applied to images.           *)
(***************************************************************************)
NoImage == [kind |-> "none", w |-> 0, h |-> 0]

Texture(m, w, h, cell, cs) ==
    [kind |-> "texture", mode |-> m, w |-> w, h |-> h, cell |-> cell, cs |-> cs]

\* Image.new(mode, size, color)
ImageNew(m, w, h, c) == Texture(m, w, h, 1, <<c>>)

\* image.convert(mode)
Convert(im, m) == [kind |-> "convert", mode |-> m, w |-> im.w, h |-> im.h, src |-> im]

\* image.resize((w, h), LANCZOS): a new image of the requested size.
Resize(im, w, h) == [kind |-> "resize", mode |-> im.mode, w |-> w, h |-> h, src |-> im]

\* base.paste(im, (x, y)) and base.paste(im, (x, y), mask=im)
Paste(base, im, x, y, masked) ==
    [kind |-> "paste", mode |-> base.mode, w |-> base.w, h |-> base.h,
     under |-> base, over |-> im, x |-> x, y |-> y, masked |-> masked]

\* Pillow's integer division by 255 (ImagingUtils.h), used by paste and
\* alpha_composite.
SHIFTFORDIV255(a) == ((a \div 256) + a) \div 256

DIV255(a) == SHIFTFORDIV255(a + 128)

\* paste through a mask: every band of the pixel is blended by the mask.
BLEND8(mask, in1, in2) == DIV255(in1 * (255 - mask) + in2 * mask)

BlendPixel(under, over) ==
    [k \in 1..4 |-> BLEND8(over[4], under[k], over[k])]

\* Image.alpha_composite, one pixel (Pillow AlphaComposite.c): "over" with
\* 7 bits of precision; a source pixel of alpha 0 leaves the destination.
CompositeBand(s, d, coef1, coef2) ==
    SHIFTFORDIV255(s * coef1 + d * coef2 + 128 * 128) \div 128

\* The composite with the roles of base and overlay exchanged.
CompositePixelSwapped(dst, src) ==
    IF dst[4] = 0 THEN src
    ELSE LET blend == src[4] * (255 - dst[4])
             outa255 == dst[4] * 255 + blend
             coef1 == (dst[4] * 255 * 255 * 128) \div outa255
             coef2 == 255 * 128 - coef1
         IN  << CompositeBand(dst[1], src[1], coef1, coef2),
                CompositeBand(dst[2], src[2], coef1, coef2),
                CompositeBand(dst[3], src[3], coef1, coef2),
                SHIFTFORDIV255(outa255 + 128) >>

CompositePixel(dst, src) ==
    IF src[4] = 0 THEN dst
    ELSE LET blend == dst[4] * (255 - src[4])
             outa255 == src[4] * 255 + blend
             coef1 == (src[4] * 255 * 255 * 128) \div outa255
             coef2 == 255 * 128 - coef1
         IN  << CompositeBand(src[1], dst[1], coef1, coef2),
                CompositeBand(src[2], dst[2], coef1, coef2),
                CompositeBand(src[3], dst[3], coef1, coef2),
                SHIFTFORDIV255(outa255 + 128) >>

\* Image.alpha_composite(dst, src): both RGBA and of one size, else it
\* raises ValueError (NoImage stands for the raise).
AlphaComposite(dst, src) ==
    IF dst.mode = "RGBA" /\ src.mode = "RGBA" /\ dst.w = src.w /\ dst.h = src.h
    THEN [kind |-> "over", mode |-> "RGBA", w |-> dst.w, h |-> dst.h,
          dst |-> dst, src |-> src]
    ELSE NoImage

\* A pixel converted to another mode: RGB gains alpha 255, RGBA loses alpha.
ConvertPixel(p, m) ==
    IF m = "RGBA" THEN (IF Len(p) = 3 THEN p \o <<255>> ELSE p)
    ELSE SubSeq(p, 1, 3)

\* The pixel at (x, y), 0 <= x < im.w, 0 <= y < im.h.  Resampling takes the
\* source pixel at the proportional position; a paste without mask
\* overwrites inside the pasted box clipped to the canvas.
RECURSIVE PixelAt(_, _, _)
PixelAt(im, x, y) ==
    CASE im.kind = "texture" ->
           im.cs[(((x \div im.cell) + (y \div im.cell)) % Len(im.cs)) + 1]
      [] im.kind = "convert" -> ConvertPixel(PixelAt(im.src, x, y), im.mode)
      [] im.kind = "resize" ->
           PixelAt(im.src, (x * im.src.w) \div im.w, (y * im.src.h) \div im.h)
      [] im.kind = "paste" ->
           IF /\ x >= im.x /\ x < im.x + im.over.w
              /\ y >= im.y /\ y < im.y + im.over.h
           THEN IF im.masked
                THEN BlendPixel(PixelAt(im.under, x, y),
                                PixelAt(im.over, x - im.x, y - im.y))
                ELSE PixelAt(im.over, x - im.x, y - im.y)
           ELSE PixelAt(im.under, x, y)
      [] im.kind = "over" ->
           CompositePixel(PixelAt(im.dst, x, y), PixelAt(im.src, x, y))

\* Whether a paste wrote the pixel at (x, y) of a canvas.
RECURSIVE PaintedAt(_, _, _)
PaintedAt(im, x, y) ==
    IF im.kind # "paste" THEN FALSE
    ELSE \/ /\ x >= im.x /\ x < im.x + im.over.w
            /\ y >= im.y /\ y < im.y + im.over.h
         \/ PaintedAt(im.under, x, y)

\* Band-wise sum of two RGB pixels.
AddPixel(p, q) == <<p[1] + q[1], p[2] + q[2], p[3] + q[3]>>

\* Sum of the pixels lo..hi of row y, and of the rows lo..hi.
RECURSIVE RowSum(_, _, _, _)
RowSum(im, y, lo, hi) ==
    IF lo = hi THEN PixelAt(im, lo, y)
    ELSE LET mid == (lo + hi) \div 2
         IN  AddPixel(RowSum(im, y, lo, mid), RowSum(im, y, mid + 1, hi))

RECURSIVE ImageSum(_, _, _)
ImageSum(im, lo, hi) ==
    IF lo = hi THEN RowSum(im, lo, 0, im.w - 1)
    ELSE LET mid == (lo + hi) \div 2
         IN  AddPixel(ImageSum(im, lo, mid), ImageSum(im, mid + 1, hi))

\* get_average_color (lines 72-79): ImageStat.Stat(rgb_image).mean, each
\* band's sum over the pixel count, truncated by int().
get_average_color(image) ==
    LET rgb_image == Convert(image, "RGB")
        sum == ImageSum(rgb_image, 0, rgb_image.h - 1)
        count == rgb_image.w * rgb_image.h
    IN  <<sum[1] \div count, sum[2] \div count, sum[3] \div count>>

(***************************************************************************)
(* The cache file and the bytes that can be in it.  A file is a sequence   *)
(* of blocks; the first block of an encoding tells which image it is, and  *)
(* a decoder reads one complete encoding from the start of the file and    *)
(* ignores what follows it.                                                *)
(***************************************************************************)
TemplateBytes == <<"t1", "t2", "t3">>
LargeTemplateBytes == <<"L1", "L2", "L3", "L4">>
OpaqueTemplateBytes == <<"o1", "o2", "o3">>
HtmlBytes == <<"h1">>
PlaceholderBytes == <<"p1", "p2">>

ClearPixel == <<0, 0, 0, 0>>

\* The garment guide: clear, opaque and half-transparent regions.
TemplateImage ==
    Texture("RGBA", ROBLOX_WIDTH, ROBLOX_HEIGHT, 45,
            <<ClearPixel, <<0, 0, 0, 255>>, <<255, 255, 255, 128>>, ClearPixel>>)

\* A guide stored at twice the size: apply_template_overlay resizes it.
LargeTemplateImage ==
    Texture("RGBA", 2 * ROBLOX_WIDTH, 2 * ROBLOX_HEIGHT, 90,
            <<<<0, 0, 0, 255>>, ClearPixel, <<40, 80, 120, 200>>>>)

\* A guide without alpha channel: convert("RGBA") makes it fully opaque.
OpaqueTemplateImage ==
    Texture("RGB", ROBLOX_WIDTH, ROBLOX_HEIGHT, 64,
            <<<<10, 20, 30>>, <<200, 100, 0>>>>)

\* Image.new("RGBA", (ROBLOX_WIDTH, ROBLOX_HEIGHT), (0, 0, 0, 0))
PlaceholderImage == ImageNew("RGBA", ROBLOX_WIDTH, ROBLOX_HEIGHT, ClearPixel)

IsPrefix(s, t) == Len(s) <= Len(t) /\ SubSeq(t, 1, Len(s)) = s

\* Image.open on the file's bytes: NoImage stands for the exception.
Decode(data) ==
    CASE IsPrefix(TemplateBytes, data) -> TemplateImage
      [] IsPrefix(LargeTemplateBytes, data) -> LargeTemplateImage
      [] IsPrefix(OpaqueTemplateBytes, data) -> OpaqueTemplateImage
      [] IsPrefix(PlaceholderBytes, data) -> PlaceholderImage
      [] OTHER -> NoImage

NoFile == [exists |-> FALSE, data |-> <<>>]

\* open(name, "wb") / "w+b": the file is created or cut to length 0.
Truncated == [exists |-> TRUE, data |-> <<>>]

\* n blocks of d written from offset 0 into the open file: bytes already
\* in the file beyond them stay.
WriteAt0(f, d, n) ==
    [exists |-> TRUE,
     data |-> SubSeq(d, 1, n) \o SubSeq(f.data, n + 1, Len(f.data))]

(***************************************************************************)
(* download_template (lines 24-39), step by step for script thread t       *)
(***************************************************************************)
Threads == {"a", "b"}

\* The thread that runs the session's script.
Session == "a"

\* What the template URL can answer with status 200.
RemoteBodies == {TemplateBytes, LargeTemplateBytes, HtmlBytes}

DlIdle == [pc |-> "idle", resp |-> <<>>, wrote |-> <<>>, created |-> FALSE,
           fetched |-> FALSE, reported |-> FALSE, cause |-> "none"]

DlCall == [DlIdle EXCEPT !.pc = "exists"]

DlFinished(t) == dl[t].pc \in {"returned", "raised"}

\* line 26: if not os.path.exists(TEMPLATE_FILENAME)
DlExists(t) ==
    /\ dl[t].pc = "exists"
    /\ dl' = [dl EXCEPT ![t].pc = IF file.exists THEN "returned" ELSE "get"]
    /\ UNCHANGED <<file, fetches, sessionVars>>

\* lines 29-30: requests.get(TEMPLATE_URL, timeout=15); raise_for_status()
DlGet(t) ==
    /\ dl[t].pc = "get"
    /\ fetches' = fetches + 1
    /\ \E r \in RemoteBodies \cup {<<"timeout">>, <<"http_error">>} :
         dl' = [dl EXCEPT ![t] =
                  IF r \in RemoteBodies
                  THEN [@ EXCEPT !.pc = "open", !.resp = r, !.fetched = TRUE]
                  ELSE [@ EXCEPT !.pc = "except", !.fetched = TRUE,
                                 !.cause = "fetch"]]
    /\ UNCHANGED <<file, sessionVars>>

\* line 31: open(TEMPLATE_FILENAME, "wb")
DlOpen(t) ==
    /\ dl[t].pc = "open"
    /\ \E ok \in BOOLEAN :
         IF ok
         THEN /\ file' = Truncated
              /\ dl' = [dl EXCEPT ![t].pc = "write"]
         ELSE /\ file' = file
              /\ dl' = [dl EXCEPT ![t].pc = "except", ![t].cause = "write"]
    /\ UNCHANGED <<fetches, sessionVars>>

\* lines 32-33: f.write(response.content), close, st.success
DlWrite(t) ==
    /\ dl[t].pc = "write"
    /\ \E n \in 0..Len(dl[t].resp) :
         /\ file' = WriteAt0(file, dl[t].resp, n)
         /\ dl' = [dl EXCEPT ![t] =
                     IF n = Len(dl[t].resp)
                     THEN [@ EXCEPT !.pc = "returned", !.wrote = dl[t].resp]
                     ELSE [@ EXCEPT !.pc = "except", !.cause = "write"]]
    /\ UNCHANGED <<fetches, sessionVars>>

\* lines 34-39: st.error, st.info, Image.new, placeholder.save opens the file
DlExcept(t) ==
    /\ dl[t].pc = "except"
    /\ \E ok \in BOOLEAN :
         IF ok
         THEN /\ file' = Truncated
              /\ dl' = [dl EXCEPT ![t].pc = "save", ![t].reported = TRUE,
                                  ![t].created = ~file.exists]
         ELSE /\ file' = file
              /\ dl' = [dl EXCEPT ![t].pc = "raised", ![t].reported = TRUE]
    /\ UNCHANGED <<fetches, sessionVars>>

\* line 39: placeholder.save writes the PNG; when the write fails Pillow
\* removes the file if this save created it (newer releases) or leaves it.
DlSave(t) ==
    /\ dl[t].pc = "save"
    /\ \E n \in 0..Len(PlaceholderBytes), removes \in BOOLEAN :
         IF n = Len(PlaceholderBytes)
         THEN /\ removes = FALSE
              /\ file' = WriteAt0(file, PlaceholderBytes, n)
              /\ dl' = [dl EXCEPT ![t].pc = "returned",
                                  ![t].wrote = PlaceholderBytes]
         ELSE /\ removes => dl[t].created
              /\ file' = IF removes THEN NoFile
                         ELSE WriteAt0(file, PlaceholderBytes, n)
              /\ dl' = [dl EXCEPT ![t].pc = "raised"]
    /\ UNCHANGED <<fetches, sessionVars>>

download_template(t) ==
    \/ DlExists(t)
    \/ DlGet(t)
    \/ DlOpen(t)
    \/ DlWrite(t)
    \/ DlExcept(t)
    \/ DlSave(t)

(***************************************************************************)
(* The layout and overlay functions (lines 81-127)                         *)
(***************************************************************************)
\* A canvas allocated at the generated asset's own size.
NewCanvasAssetSized(ai, color) == ImageNew("RGBA", ai.w, ai.h, color)

\* Image.new("RGBA", (ROBLOX_WIDTH, ROBLOX_HEIGHT), color): the base canvas
NewCanvas(ai, color) == ImageNew("RGBA", ROBLOX_WIDTH, ROBLOX_HEIGHT, color)

\* create_logo_mode_image (lines 81-95)
create_logo_mode_image(ai) ==
    LET logo == Resize(ai, LOGO_SIZE, LOGO_SIZE)
        avg_color == get_average_color(logo)
        base == NewCanvas(ai, <<avg_color[1], avg_color[2], avg_color[3], 255>>)
    IN  Paste(base, logo, LOGO_X, LOGO_Y, TRUE)

\* line 108: base.paste(tile, (x, y))
PasteTile(base, t, x, y) == Paste(base, t, x, y, FALSE)

\* A loop that stops before a tile that does not fit whole.
RangeNextWholeTiles(v, stop) ==
    IF v + 2 * PATTERN_SIZE <= stop THEN v + PATTERN_SIZE ELSE stop

\* range(0, stop, PATTERN_SIZE): the value after v, or stop when exhausted
RangeNext(v, stop) ==
    IF v + PATTERN_SIZE < stop THEN v + PATTERN_SIZE ELSE stop

\* An except branch that returns a blank canvas, or nothing.
OverlayFallbackBlank(base) == PlaceholderImage

OverlayFallbackNone(base) == NoImage

\* lines 125-127: except Exception: st.warning(...); return base_image
OverlayFallback(base) == base

\* line 118: the overlay's size differs from the canvas's
NeedsResize(ov) == <<ov.w, ov.h>> # <<ROBLOX_WIDTH, ROBLOX_HEIGHT>>

(***************************************************************************)
(* main (lines 131-188): one script run of the session                     *)
(***************************************************************************)
Prompts == {<<>>, <<" ">>, <<"d", "r", "a", "g", "o", "n">>}

Modes == {"Logo Mode", "Pattern Mode"}

\* Python's str truthiness: "if not prompt" passes every non-empty string.
Truthy(s) == Len(s) > 0

IsBlank(s) == \A i \in 1..Len(s) : s[i] = " "

\* What DALL-E's image decodes to before convert("RGBA").
GeneratedAssets ==
    { Texture("RGB", 1024, 1024, 1, << <<255, 0, 0>> >>),
      Texture("RGB", 800, 200, 100, << <<0, 0, 0>>, <<255, 255, 255>> >>),
      Texture("RGBA", 64, 64, 8,
              << <<0, 0, 255, 255>>, <<0, 255, 0, 64>>, ClearPixel >>) }

GenFailures == {"api_error", "malformed_response", "download_error",
                "not_an_image"}

\* What the generation step can do: raise somewhere in the try block
\* (lines 57-67), or decode an image.
GenOutcomes ==
    {[ok |-> FALSE, why |-> f, image |-> NoImage] : f \in GenFailures}
    \cup {[ok |-> TRUE, why |-> "none", image |-> a] : a \in GeneratedAssets}

\* A generate_image that answers a failure with a blank image.
generate_image_blank(r) ==
    IF r.ok THEN Convert(r.image, "RGBA")
    ELSE ImageNew("RGBA", 1024, 1024, ClearPixel)

\* generate_image (lines 53-70): the image, or None after st.error
generate_image(r) ==
    IF r.ok THEN Convert(r.image, "RGBA") ELSE NoImage

\* line 165: "if ai_image:"
ImageTruthy(im) == im # NoImage

FreshRun ==
    /\ client' = "none"
    /\ genCalls' = 0
    /\ ai_image' = NoImage
    /\ tile' = NoImage
    /\ tx' = 0
    /\ ty' = 0
    /\ base_image' = NoImage
    /\ overlay' = NoImage
    /\ overlayPath' = "none"
    /\ final_image' = NoImage
    /\ displayed' = NoImage
    /\ download' = NoImage
    /\ notices' = {}
    /\ outcome' = "running"

\* A rerun of the script: the widgets carry what the user entered on the
\* page the previous run drew; a first run, or a run after a page that did
\* not draw them, has the defaults and no click.  Line 138 calls
\* download_template.
StartRun ==
    /\ pc = "idle"
    /\ runs < MaxRuns
    /\ runs' = runs + 1
    /\ \E p \in Prompts, m \in Modes, b \in BOOLEAN :
         /\ ~rendered => (p = <<>> /\ m = "Logo Mode" /\ ~b)
         /\ prompt' = p
         /\ mode' = m
         /\ generate_btn' = b
    /\ FreshRun
    /\ dl' = [dl EXCEPT ![Session] = DlCall]
    /\ pc' = "download_template"
    /\ UNCHANGED <<file, fetches, rendered>>

\* download_template raised: the script run ends with the exception.
DownloadRaised ==
    /\ pc = "download_template"
    /\ dl[Session].pc = "raised"
    /\ pc' = "idle"
    /\ rendered' = FALSE
    /\ outcome' = "exception"
    /\ UNCHANGED <<file, fetches, dl, runs, prompt, mode, generate_btn, client,
                   genCalls, imageVars, notices>>

\* lines 141-160: the widgets, then the click and the prompt check
Widgets ==
    /\ pc = "download_template"
    /\ dl[Session].pc = "returned"
    /\ rendered' = TRUE
    /\ IF ~generate_btn
       THEN /\ pc' = "idle"
            /\ outcome' = "no_click"
            /\ notices' = notices
       ELSE IF ~Truthy(prompt)
       THEN /\ pc' = "idle"
            /\ outcome' = "empty_prompt"
            /\ notices' = notices \cup {"Please enter a design description."}
       ELSE /\ pc' = "get_openai_client"
            /\ outcome' = outcome
            /\ notices' = notices
    /\ UNCHANGED <<file, fetches, dl, runs, prompt, mode, generate_btn, client,
                   genCalls, imageVars>>

\* get_openai_client (lines 41-51): st.stop() ends the script run
GetOpenAIClient ==
    /\ pc = "get_openai_client"
    /\ \E secret \in {"key", "no_key", "secrets_error"} :
         IF secret = "key"
         THEN /\ client' = "ok"
              /\ pc' = "generate_image"
              /\ UNCHANGED <<notices, outcome>>
         ELSE /\ client' = "none"
              /\ pc' = "idle"
              /\ notices' = notices \cup {"OpenAI client: " \o secret}
              /\ outcome' = "stopped"
    /\ UNCHANGED <<file, fetches, dl, runs, rendered, prompt, mode,
                   generate_btn, genCalls, imageVars>>

\* lines 163-165: generate_image, then "if ai_image:"
GenerateImage ==
    /\ pc = "generate_image"
    /\ genCalls' = genCalls + 1
    /\ \E r \in GenOutcomes :
         /\ ai_image' = generate_image(r)
         /\ notices' = IF r.ok THEN notices
                       ELSE notices \cup {"Image generation failed: " \o r.why}
    /\ IF ImageTruthy(ai_image')
       THEN pc' = "compose" /\ outcome' = outcome
       ELSE pc' = "idle" /\ outcome' = "generation_failed"
    /\ UNCHANGED <<file, fetches, dl, runs, rendered, prompt, mode,
                   generate_btn, client, tile, tx, ty, base_image, overlay,
                   overlayPath, final_image, displayed, download>>

\* lines 168-169: Logo Mode
ComposeLogo ==
    /\ pc = "compose"
    /\ mode = "Logo Mode"
    /\ base_image' = create_logo_mode_image(ai_image)
    /\ pc' = "overlay_open"
    /\ UNCHANGED <<file, fetches, dl, runs, rendered, prompt, mode,
                   generate_btn, client, genCalls, ai_image, tile, tx, ty,
                   overlay, overlayPath, final_image, displayed, download,
                   notices, outcome>>

\* lines 100-106: Pattern Mode: the tile, the clear canvas, the loop's start
ComposePattern ==
    /\ pc = "compose"
    /\ mode # "Logo Mode"
    /\ tile' = Resize(ai_image, PATTERN_SIZE, PATTERN_SIZE)
    /\ base_image' = NewCanvas(ai_image, ClearPixel)
    /\ tx' = 0
    /\ ty' = 0
    /\ pc' = "pattern_loop"
    /\ UNCHANGED <<file, fetches, dl, runs, rendered, prompt, mode,
                   generate_btn, client, genCalls, ai_image, overlay,
                   overlayPath, final_image, displayed, download, notices,
                   outcome>>

\* lines 106-110: one pass of the inner loop body, and the loops' advance
PatternPaste ==
    /\ pc = "pattern_loop"
    /\ base_image' = PasteTile(base_image, tile, tx, ty)
    /\ LET ny == RangeNext(ty, ROBLOX_HEIGHT)
           nx == RangeNext(tx, ROBLOX_WIDTH)
       IN  IF ny < ROBLOX_HEIGHT
           THEN tx' = tx /\ ty' = ny /\ pc' = pc
           ELSE IF nx < ROBLOX_WIDTH
           THEN tx' = nx /\ ty' = 0 /\ pc' = pc
           ELSE tx' = nx /\ ty' = ny /\ pc' = "overlay_open"
    /\ UNCHANGED <<file, fetches, dl, runs, rendered, prompt, mode,
                   generate_btn, client, genCalls, ai_image, tile, overlay,
                   overlayPath, final_image, displayed, download, notices,
                   outcome>>

\* The except branch of apply_template_overlay.
OverlayFailed ==
    /\ final_image' = OverlayFallback(base_image)
    /\ overlayPath' = "failed"
    /\ notices' = notices \cup {"Could not apply overlay"}
    /\ pc' = "display"

\* line 115: Image.open(TEMPLATE_FILENAME).convert("RGBA")
OverlayOpen ==
    /\ pc = "overlay_open"
    /\ LET im == IF file.exists THEN Decode(file.data) ELSE NoImage
       IN  IF im = NoImage
           THEN OverlayFailed /\ overlay' = overlay
           ELSE /\ overlay' = Convert(im, "RGBA")
                /\ overlayPath' = "opened"
                /\ pc' = "overlay_resize"
                /\ UNCHANGED <<final_image, notices>>
    /\ UNCHANGED <<file, fetches, dl, runs, rendered, prompt, mode,
                   generate_btn, client, genCalls, ai_image, tile, tx, ty,
                   base_image, displayed, download, outcome>>

\* lines 118-119: resize the overlay to the canvas size when it differs
OverlayResize ==
    /\ pc = "overlay_resize"
    /\ IF NeedsResize(overlay)
       THEN /\ overlay' = Resize(overlay, ROBLOX_WIDTH, ROBLOX_HEIGHT)
            /\ overlayPath' = "resized"
       ELSE UNCHANGED <<overlay, overlayPath>>
    /\ pc' = "overlay_composite"
    /\ UNCHANGED <<file, fetches, dl, runs, rendered, prompt, mode,
                   generate_btn, client, genCalls, ai_image, tile, tx, ty,
                   base_image, final_image, displayed, download, notices,
                   outcome>>

\* lines 122-127: Image.alpha_composite(base_image, overlay)
OverlayComposite ==
    /\ pc = "overlay_composite"
    /\ LET final == AlphaComposite(base_image, overlay)
       IN  IF final = NoImage
           THEN OverlayFailed
           ELSE /\ final_image' = final
                /\ overlayPath' = IF overlayPath = "resized"
                                  THEN "applied_resized" ELSE "applied"
                /\ pc' = "display"
                /\ notices' = notices
    /\ UNCHANGED <<file, fetches, dl, runs, rendered, prompt, mode,
                   generate_btn, client, genCalls, ai_image, tile, tx, ty,
                   base_image, overlay, displayed, download, outcome>>

\* lines 177-188: st.success, st.image, the PNG for st.download_button
Display ==
    /\ pc = "display"
    /\ displayed' = final_image
    /\ download' = final_image
    /\ notices' = notices \cup {"Shirt generated!"}
    /\ outcome' = "shirt"
    /\ pc' = "idle"
    /\ UNCHANGED <<file, fetches, dl, runs, rendered, prompt, mode,
                   generate_btn, client, genCalls, ai_image, tile, tx, ty,
                   base_image, overlay, overlayPath, final_image>>

Init ==
    /\ file = NoFile
    /\ fetches = 0
    /\ dl = [t \in Threads |-> DlIdle]
    /\ pc = "idle"
    /\ runs = 0
    /\ rendered = FALSE
    /\ prompt = <<>>
    /\ mode = "Logo Mode"
    /\ generate_btn = FALSE
    /\ client = "none"
    /\ genCalls = 0
    /\ ai_image = NoImage
    /\ tile = NoImage
    /\ tx = 0
    /\ ty = 0
    /\ base_image = NoImage
    /\ overlay = NoImage
    /\ overlayPath = "none"
    /\ final_image = NoImage
    /\ displayed = NoImage
    /\ download = NoImage
    /\ notices = {}
    /\ outcome = "none"

Next ==
    \/ StartRun
    \/ download_template(Session)
    \/ DownloadRaised
    \/ Widgets
    \/ GetOpenAIClient
    \/ GenerateImage
    \/ ComposeLogo
    \/ ComposePattern
    \/ PatternPaste
    \/ OverlayOpen
    \/ OverlayResize
    \/ OverlayComposite
    \/ Display

Spec == Init /\ [][Next]_vars

(***************************************************************************)
(* Properties of the session's runs, checked under Spec                    *)
(***************************************************************************)
IsCanvas(im) == <<im.w, im.h>> = <<ROBLOX_WIDTH, ROBLOX_HEIGHT>>

\* st.error of generate_image's except branch was called in this run.
GenerationFailed ==
    \E f \in GenFailures : ("Image generation failed: " \o f) \in notices

\* A run started by a click on Generate has ended.
TriggeredRunEnded == generate_btn /\ pc = "idle"

\* C1: every layout canvas, whatever the asset's native size and the mode,
\* and every image returned by apply_template_overlay (overlay applied,
\* resized first, or skipped after a failure) is exactly 585 x 559.
C1_CanvasIs585x559 ==
    /\ base_image # NoImage => IsCanvas(base_image)
    /\ final_image # NoImage => IsCanvas(final_image)
    /\ displayed # NoImage => IsCanvas(displayed)

C1_Witness ==
    /\ outcome = "shirt"
    /\ ai_image.w # ai_image.h
    /\ overlayPath = "applied_resized"
    /\ IsCanvas(base_image)
    /\ IsCanvas(final_image)

\* C2: a triggered run whose prompt is empty or whitespace only never calls
\* the generator and never shows a canvas.
C2_BlankPromptMakesNoCall ==
    (generate_btn /\ IsBlank(prompt)) => (genCalls = 0 /\ displayed = NoImage)

\* C3: once the generation step has failed, the run has halted with the
\* failure reported: no layout canvas, no overlay step, nothing displayed
\* and nothing offered for download.
C3_GenerationFailureHalts ==
    GenerationFailed =>
        /\ pc = "idle"
        /\ outcome = "generation_failed"
        /\ base_image = NoImage
        /\ overlayPath = "none"
        /\ final_image = NoImage
        /\ displayed = NoImage
        /\ download = NoImage

C3_Witness ==
    /\ GenerationFailed
    /\ genCalls = 1
    /\ ai_image = NoImage
    /\ outcome = "generation_failed"

\* C4: when the overlay cannot be loaded or composited,
\* apply_template_overlay returns the base canvas it was given, a warning
\* is shown, and the run completes with that canvas displayed and offered.
C4_OverlayFailureKeepsBase ==
    overlayPath = "failed" =>
        /\ final_image = base_image
        /\ "Could not apply overlay" \in notices
        /\ pc \in {"display", "idle"}
        /\ pc = "idle" =>
             /\ outcome = "shirt"
             /\ displayed = base_image
             /\ download = base_image

C4_Witness ==
    /\ overlayPath = "failed"
    /\ pc = "idle"
    /\ displayed = base_image
    /\ base_image # NoImage

\* C5: two calls of download_template one after the other make at most one
\* network fetch in total, whatever the fetch and the file writes do.
C5_TwoCallsOneFetch ==
    (runs <= 2 /\ DlFinished(Session)) => fetches <= 1

\* The fetch of this call failed, what it fetched is no decodable image, or
\* writing the fetched bytes failed.
TemplateFailure(t) ==
    \/ dl[t].cause # "none"
    \/ dl[t].fetched /\ dl[t].resp # <<>> /\ Decode(dl[t].resp) = NoImage

\* C6: whenever the fetch fails, serves no decodable image, or the write of
\* the fetched bytes fails, download_template returns normally, having
\* reported the failure, with the transparent placeholder in the cache file.
C6_FailureLeavesPlaceholder ==
    (DlFinished(Session) /\ TemplateFailure(Session)) =>
        /\ dl[Session].pc = "returned"
        /\ dl[Session].reported
        /\ file = [exists |-> TRUE, data |-> PlaceholderBytes]

\* C7 as stated: a triggered run ends without a canvas only when the prompt
\* is empty or the generation step failed.
C7_OnlyPromptAndGenerationAbort ==
    (TriggeredRunEnded /\ outcome # "shirt") =>
        (~Truthy(prompt) \/ GenerationFailed)

\* C7 amended: a triggered run ends without a canvas only when the prompt
\* is empty, the generator client could not be initialised (st.stop), or
\* the generation step failed; every other triggered run ends by displaying
\* a final 585 x 559 canvas, whatever failed in the overlay step.
C7_OnlyPromptClientAndGenerationAbort ==
    TriggeredRunEnded =>
        /\ outcome \in {"empty_prompt", "stopped", "generation_failed", "shirt"}
        /\ outcome = "empty_prompt" => ~Truthy(prompt)
        /\ outcome = "stopped" => (client = "none" /\ genCalls = 0)
        /\ outcome = "generation_failed" => GenerationFailed
        /\ (Truthy(prompt) /\ client = "ok" /\ ~GenerationFailed) =>
             /\ outcome = "shirt"
             /\ displayed = final_image
             /\ IsCanvas(displayed)

C7_Witness ==
    /\ TriggeredRunEnded
    /\ outcome = "shirt"
    /\ file.exists
    /\ Decode(file.data) = NoImage
    /\ mode = "Pattern Mode"
    /\ IsCanvas(displayed)

(***************************************************************************)
(* Two script threads in download_template at once (two sessions' first    *)
(* runs), no cache file yet                                                *)
(***************************************************************************)
InitRace ==
    /\ file = NoFile
    /\ fetches = 0
    /\ dl = [t \in Threads |-> DlCall]
    /\ pc = "download_template"
    /\ runs = 1
    /\ rendered = FALSE
    /\ prompt = <<>>
    /\ mode = "Logo Mode"
    /\ generate_btn = FALSE
    /\ client = "none"
    /\ genCalls = 0
    /\ ai_image = NoImage
    /\ tile = NoImage
    /\ tx = 0
    /\ ty = 0
    /\ base_image = NoImage
    /\ overlay = NoImage
    /\ overlayPath = "none"
    /\ final_image = NoImage
    /\ displayed = NoImage
    /\ download = NoImage
    /\ notices = {}
    /\ outcome = "running"

NextRace == \E t \in Threads : download_template(t)

SpecRace == InitRace /\ [][NextRace]_vars

\* C10: when two runs of download_template race on a missing cache file and
\* both return, the file holds the complete bytes one of them wrote: never
\* a truncated file, never a mix of the two writes.
C10_RaceLeavesOneCompleteWrite ==
    (\A t \in Threads : dl[t].pc = "returned") =>
        /\ file.exists
        /\ \E t \in Threads : dl[t].wrote # <<>> /\ file.data = dl[t].wrote

(***************************************************************************)
(* create_pattern_mode_image on a set of generated assets                  *)
(***************************************************************************)
PatternAssets ==
    GeneratedAssets \cup
    { Texture("RGB", 150, 150, 75, << <<0, 0, 0>>, <<255, 255, 255>> >>),
      Texture("RGBA", 1024, 1024, 128,
              << <<200, 30, 30, 255>>, <<30, 30, 200, 128>>, ClearPixel >>),
      Texture("RGBA", 300, 90, 7, << ClearPixel, <<1, 2, 3, 4>> >>) }

\* A session that has just received the generated image.
AfterGeneration(asset, m) ==
    /\ fetches = 0
    /\ dl = [t \in Threads |-> IF t = Session
                               THEN [DlIdle EXCEPT !.pc = "returned"]
                               ELSE DlIdle]
    /\ runs = 1
    /\ rendered = TRUE
    /\ prompt = <<"d", "r", "a", "g", "o", "n">>
    /\ mode = m
    /\ generate_btn = TRUE
    /\ client = "ok"
    /\ genCalls = 1
    /\ ai_image = Convert(asset, "RGBA")
    /\ tile = NoImage
    /\ tx = 0
    /\ ty = 0
    /\ overlay = NoImage
    /\ overlayPath = "none"
    /\ final_image = NoImage
    /\ displayed = NoImage
    /\ download = NoImage
    /\ notices = {}
    /\ outcome = "running"

InitPattern ==
    /\ file = [exists |-> TRUE, data |-> TemplateBytes]
    /\ pc = "compose"
    /\ base_image = NoImage
    /\ \E a \in PatternAssets : AfterGeneration(a, "Pattern Mode")

NextPattern == ComposePattern \/ PatternPaste

SpecPattern == InitPattern /\ [][NextPattern]_vars

\* C9: after create_pattern_mode_image every canvas pixel (x, y) equals, in
\* all four channels, pixel (x mod 150, y mod 150) of the resized tile and
\* none is left as allocated (a clear pixel is one a paste wrote); so the
\* tiles of the last column and row show their first 135 columns and 109
\* rows.
C9_PatternTilesCanvas ==
    (mode = "Pattern Mode" /\ pc = "overlay_open") =>
        /\ IsCanvas(base_image)
        /\ <<tile.w, tile.h>> = <<PATTERN_SIZE, PATTERN_SIZE>>
        /\ \A x \in 0..(ROBLOX_WIDTH - 1) : \A y \in 0..(ROBLOX_HEIGHT - 1) :
             LET p == PixelAt(base_image, x, y)
             IN  /\ p = PixelAt(tile, x % PATTERN_SIZE, y % PATTERN_SIZE)
                 /\ p = ClearPixel => PaintedAt(base_image, x, y)
        /\ PixelAt(base_image, ROBLOX_WIDTH - 1, ROBLOX_HEIGHT - 1)
             = PixelAt(tile, 134, 108)

C9_Witness ==
    /\ mode = "Pattern Mode"
    /\ pc = "overlay_open"
    /\ tx = ROBLOX_WIDTH
    /\ PixelAt(tile, 0, 0) # PixelAt(tile, 75, 0)
    /\ PixelAt(base_image, 450 + 75, 450) = PixelAt(tile, 75, 0)
    /\ PixelAt(base_image, 450, 450) = PixelAt(tile, 0, 0)

(***************************************************************************)
(* apply_template_overlay on a set of base canvases and cache files        *)
(***************************************************************************)
BaseCanvases ==
    { create_logo_mode_image(Convert(a, "RGBA")) :
        a \in { Texture("RGB", 800, 200, 100, << <<0, 0, 0>>, <<255, 255, 255>> >>),
                Texture("RGBA", 64, 64, 8,
                        << <<0, 0, 255, 255>>, <<0, 255, 0, 64>>, ClearPixel >>) } }
    \cup { ImageNew("RGBA", ROBLOX_WIDTH, ROBLOX_HEIGHT, <<10, 200, 30, 128>>) }

OverlayFiles ==
    { [exists |-> TRUE, data |-> d] :
        d \in {TemplateBytes, LargeTemplateBytes, OpaqueTemplateBytes,
               PlaceholderBytes, HtmlBytes, <<>>, <<"t1", "t2">>,
               <<"p1", "p2", "t3">>} }
    \cup {NoFile}

InitOverlay ==
    /\ file \in OverlayFiles
    /\ pc = "overlay_open"
    /\ base_image \in BaseCanvases
    /\ \E a \in {Texture("RGB", 1024, 1024, 1, << <<255, 0, 0>> >>)} :
         AfterGeneration(a, "Logo Mode")

NextOverlay == OverlayOpen \/ OverlayResize \/ OverlayComposite \/ Display

SpecOverlay == InitOverlay /\ [][NextOverlay]_vars

\* C8: where the overlay (resized to the canvas if needed) has alpha 0 the
\* image returned by apply_template_overlay has the base's pixel unchanged,
\* and where it has alpha 255 it has the overlay's pixel.
C8_OverlayAlphaSemantics ==
    (pc = "display" /\ overlayPath \in {"applied", "applied_resized"}) =>
        \A x \in 0..(ROBLOX_WIDTH - 1) : \A y \in 0..(ROBLOX_HEIGHT - 1) :
            LET o == PixelAt(overlay, x, y)
            IN  /\ o[4] = 0 => PixelAt(final_image, x, y) = PixelAt(base_image, x, y)
                /\ o[4] = 255 => PixelAt(final_image, x, y) = o

C8_Witness ==
    /\ pc = "display"
    /\ overlayPath = "applied_resized"
    /\ PixelAt(overlay, 0, 0)[4] = 255
    /\ PixelAt(overlay, 45, 0)[4] = 0
    /\ PixelAt(final_image, 0, 0) = PixelAt(overlay, 0, 0)
    /\ PixelAt(final_image, 45, 0) = PixelAt(base_image, 45, 0)
    /\ PixelAt(base_image, 45, 0) # PixelAt(overlay, 45, 0)

====
